---- MODULE Spec2Model ----
(***************************************************************************)
(* Model of checksum-action (src/main.go): one process that walks a        *)
(* directory tree, filters every visited entry against a list of ignore    *)
(* prefixes, hashes every non-ignored file and writes the list of          *)
(* (path, checksum) pairs as indented JSON to a file under the root.       *)
(*                                                                         *)
(* Strings are sequences of one-character strings, so that prefix tests,   *)
(* splitting, joining, hex encoding and the JSON text are computed.        *)
(***************************************************************************)
EXTENDS Integers, Sequences, FiniteSets, TLC

VARIABLES
    fs,              \* the file system: absolute path -> node
    ignorePaths,     \* value of the --ignore flag (main.go:23)
    outputFile,      \* value of the --output flag (main.go:22)
    pc,              \* "idle" | "walk" | "main": position of the process
    ignorePatterns,  \* main's local (main.go:27-31)
    checksums,       \* calculateChecksums' local slice (main.go:71)
    stack,           \* WalkDir's pending entries, one frame per open directory
    walkErr,         \* the error the walk callback returned, or NoErr
    ret,             \* what calculateChecksums returned to main
    visited,         \* history: entries the callback was called for, in order
    listed,          \* history: directories ReadDir was called for in this run
    reads,           \* history: files os.ReadFile was called for in this run
    failed,          \* history: paths whose listing or read failed in this run
    saves,           \* history: the calls of saveToFile made in this run
    fs0,             \* history: the file system when this run started
    run,             \* number of finished runs
    last,            \* outcome of the run that finished last
    prev             \* outcome of the run before it

vars == <<fs, ignorePaths, outputFile, pc, ignorePatterns, checksums, stack,
          walkErr, ret, visited, listed, reads, failed, saves, fs0, run,
          last, prev>>

\* Number of consecutive runs of the program with the same arguments.
MaxRuns == 2

-----------------------------------------------------------------------------
(* Strings *)

\* HasPrefix with its arguments exchanged.
HasPrefix_Swapped(s, prefix) ==
    /\ Len(prefix) >= Len(s)
    /\ SubSeq(prefix, 1, Len(s)) = s

\* strings.HasPrefix (main.go:130)
HasPrefix(s, prefix) ==
    /\ Len(s) >= Len(prefix)
    /\ SubSeq(s, 1, Len(prefix)) = prefix

\* Index of the first "," at or after position i, 0 when there is none.
RECURSIVE IndexFrom(_, _, _)
IndexFrom(s, sep, i) ==
    IF i > Len(s) THEN 0
    ELSE IF s[i] = sep THEN i
    ELSE IndexFrom(s, sep, i + 1)

\* strings.Split(s, ",") (main.go:30): n separators give n+1 pieces, empty
\* pieces included.
RECURSIVE Split(_, _)
Split(s, sep) ==
    LET i == IndexFrom(s, sep, 1) IN
    IF i = 0 THEN <<s>>
    ELSE <<SubSeq(s, 1, i - 1)>> \o Split(SubSeq(s, i + 1, Len(s)), sep)

\* filepath.Join(dir, name) for a clean relative name (main.go:49)
Join(dir, name) == dir \o <<"/">> \o name

\* Rel as a bare removal of the base and its separator: the base itself
\* comes out empty instead of ".".
Rel_TrimPrefix(basepath, targpath) ==
    SubSeq(targpath, Len(basepath) + 2, Len(targpath))

\* filepath.Rel(basepath, targpath) for a target at or below the base
\* (main.go:102, 123): the base itself is ".".
Rel(basepath, targpath) ==
    IF targpath = basepath THEN <<".">>
    ELSE SubSeq(targpath, Len(basepath) + 2, Len(targpath))

\* The characters of the model and their byte values.
Alphabet ==
    << "\n", " ", "\"", ",", ".", "/",
       "0", "1", "2", "3", "4", "5", "6", "7", "8", "9", ":", "[", "]",
       "a", "b", "c", "d", "e", "f", "h", "k", "l", "m", "n", "o", "p",
       "r", "s", "t", "u", "w", "{", "}" >>

Ascii ==
    << 10, 32, 34, 44, 46, 47,
       48, 49, 50, 51, 52, 53, 54, 55, 56, 57, 58, 91, 93,
       97, 98, 99, 100, 101, 102, 104, 107, 108, 109, 110, 111, 112,
       114, 115, 116, 117, 119, 123, 125 >>

AsciiOf ==
    [c \in {Alphabet[i] : i \in 1..Len(Alphabet)} |->
        Ascii[CHOOSE i \in 1..Len(Alphabet) : Alphabet[i] = c]]

Code(c) == AsciiOf[c]

\* Byte-wise order of two strings (the order os.ReadDir sorts names in).
RECURSIVE Less(_, _)
Less(a, b) ==
    IF a = <<>> THEN b # <<>>
    ELSE IF b = <<>> THEN FALSE
    ELSE IF Head(a) = Head(b) THEN Less(Tail(a), Tail(b))
    ELSE Code(Head(a)) < Code(Head(b))

RECURSIVE SortStrings(_)
SortStrings(S) ==
    IF S = {} THEN <<>>
    ELSE LET m == CHOOSE x \in S : \A y \in S \ {x} : Less(x, y)
         IN  <<m>> \o SortStrings(S \ {m})

-----------------------------------------------------------------------------
(* The file system *)

\* filepath.Abs(*rootDir) (main.go:33): the absolute path of the root.
projectDir == <<"/", "r">>

\* Root-relative names an entry of the tree can have.
RelNames ==
    { <<"a">>, <<"b">>, <<"b", "/", "a">>, <<"b", "/", "o">>, <<"b", "b">>,
      <<"o">> }

AbsPaths == {projectDir} \cup { Join(projectDir, n) : n \in RelNames }

Absent == [kind |-> "none", ok |-> FALSE, data |-> <<>>]
DirNode(ok) == [kind |-> "dir", ok |-> ok, data |-> <<>>]
FileNode(ok, data) == [kind |-> "file", ok |-> ok, data |-> data]

RECURSIVE LastSlash(_, _)
LastSlash(p, i) ==
    IF i = 0 THEN 0 ELSE IF p[i] = "/" THEN i ELSE LastSlash(p, i - 1)

\* The directory that holds p.
Parent(p) == SubSeq(p, 1, LastSlash(p, Len(p)) - 1)

\* fs.DirEntry.IsDir (main.go:85, 92)
IsDir(f, p) == f[p].kind = "dir"

\* os.ReadDir as WalkDir uses it: the directory's entries sorted by name,
\* or an error when the directory cannot be opened.
ReadDir(f, p) ==
    IF f[p].kind = "dir" /\ f[p].ok
    THEN [err |-> FALSE,
          entries |-> SortStrings({ q \in DOMAIN f :
                                      f[q].kind # "none" /\ Parent(q) = p })]
    ELSE [err |-> TRUE, entries |-> <<>>]

\* os.ReadFile (main.go:59): the whole content, or an error for a file that
\* cannot be opened and for a directory.
ReadFile(f, p) ==
    IF f[p].kind = "file" /\ f[p].ok
    THEN [err |-> FALSE, data |-> f[p].data]
    ELSE [err |-> TRUE, data |-> <<>>]

\* os.WriteFile(name, data, 0644) (main.go:145): creates or truncates the
\* file; fails on a directory, on a file it may not open, and when the
\* directory that should hold the file does not exist.
WriteFile(f, p, data) ==
    IF \/ f[p].kind = "dir"
       \/ f[p].kind = "file" /\ ~f[p].ok
       \/ ~(Parent(p) \in DOMAIN f /\ f[Parent(p)].kind = "dir")
    THEN [err |-> TRUE, fs |-> f]
    ELSE [err |-> FALSE, fs |-> [f EXCEPT ![p] = FileNode(TRUE, data)]]

-----------------------------------------------------------------------------
(* Hashing *)

\* Number of bytes of a SHA-1 digest (crypto/sha1.Size).
DigestSize == 20

\* Modulus and multiplier of the stand-in digest's polynomial.
Modulus == 32749
Multiplier == 31

RECURSIVE Power(_)
Power(n) ==
    IF n = 0 THEN 1
    ELSE IF n % 2 = 0 THEN LET h == Power(n \div 2) IN (h * h) % Modulus
    ELSE (Multiplier * Power(n - 1)) % Modulus

\* The polynomial of the bytes data[lo..hi], by halves.
RECURSIVE Absorb(_, _, _)
Absorb(data, lo, hi) ==
    IF lo > hi THEN 0
    ELSE IF lo = hi THEN Code(data[lo])
    ELSE LET mid == (lo + hi) \div 2 IN
         (Absorb(data, lo, mid) * Power(hi - mid) + Absorb(data, mid + 1, hi))
             % Modulus

RECURSIVE Spread(_, _)
Spread(h, i) ==
    IF i > DigestSize THEN <<>>
    ELSE <<((h + 7) * (2 * i + 1) + (h \div (i + 1))) % 256>> \o Spread(h, i + 1)

\* sha1.Sum (main.go:65).  SHA-1 itself is not computed: the digest is a
\* fixed function of the bytes read, DigestSize bytes long.
Sum(data) == Spread((Absorb(data, 1, Len(data)) + Len(data)) % Modulus, 1)

hextable ==
    << "0", "1", "2", "3", "4", "5", "6", "7",
       "8", "9", "a", "b", "c", "d", "e", "f" >>

\* hex.EncodeToString (main.go:67): two digits per byte, high nibble first.
RECURSIVE EncodeToString(_)
EncodeToString(src) ==
    IF src = <<>> THEN <<>>
    ELSE << hextable[(Head(src) \div 16) + 1], hextable[(Head(src) % 16) + 1] >>
         \o EncodeToString(Tail(src))

\* generateSHA1Checksum (main.go:58-68)
generateSHA1Checksum(filePath) ==
    LET r == ReadFile(fs, filePath) IN
    IF r.err THEN [err |-> TRUE, checksum |-> <<>>]
    ELSE [err |-> FALSE, checksum |-> EncodeToString(Sum(r.data))]

-----------------------------------------------------------------------------
(* The manifest and its JSON text *)

\* type FileChecksum (main.go:15-18)
FileChecksum(path, checksum) == [Path |-> path, Checksum |-> checksum]

\* A Go slice: nil until the first append.
NilSlice == [isNil |-> TRUE, elems |-> <<>>]
append(s, e) == [isNil |-> FALSE, elems |-> Append(s.elems, e)]

Quote(s) == <<"\"">> \o s \o <<"\"">>

\* One element of the array as json.MarshalIndent(v, "", "  ") prints it,
\* the fields under the names of their json tags (main.go:16-17).
MarshalElem(e) ==
    <<" ", " ", "{", "\n">>
    \o <<" ", " ", " ", " ">> \o Quote(<<"p", "a", "t", "h">>) \o <<":", " ">>
    \o Quote(e.Path) \o <<",", "\n">>
    \o <<" ", " ", " ", " ">>
    \o Quote(<<"c", "h", "e", "c", "k", "s", "u", "m">>) \o <<":", " ">>
    \o Quote(e.Checksum) \o <<"\n">>
    \o <<" ", " ", "}">>

RECURSIVE MarshalElems(_)
MarshalElems(es) ==
    IF Len(es) = 1 THEN MarshalElem(es[1])
    ELSE MarshalElem(es[1]) \o <<",", "\n">> \o MarshalElems(Tail(es))

\* json.MarshalIndent(checksums, "", "  ") (main.go:139): a nil slice is
\* encoded as null, an empty one as [], any other as an indented array.
MarshalIndent(s) ==
    IF s.isNil THEN <<"n", "u", "l", "l">>
    ELSE IF s.elems = <<>> THEN <<"[", "]">>
    ELSE <<"[", "\n">> \o MarshalElems(s.elems) \o <<"\n", "]">>

-----------------------------------------------------------------------------
(* The walk *)

NoErr == [kind |-> "nil", path |-> <<>>]

\* isIgnored matching whole path segments: the path is the pattern or lies
\* below it.
isIgnored_Segments(path, patterns, root) ==
    LET relativePath == Rel(root, path) IN
    \E i \in 1..Len(patterns) :
        \/ relativePath = patterns[i]
        \/ HasPrefix(relativePath, patterns[i] \o <<"/">>)

\* isIgnored (main.go:122-136)
isIgnored(path, patterns, root) ==
    LET relativePath == Rel(root, path) IN
    \E i \in 1..Len(patterns) : HasPrefix(relativePath, patterns[i])

\* The callback without filepath.SkipDir: an ignored directory is passed
\* over like an ignored file, and WalkDir descends into it.
fn_NoSkip(path) ==
    IF isIgnored(path, ignorePatterns, projectDir)
    THEN [ret |-> "nil", checksums |-> checksums, read |-> {}]
    ELSE IF IsDir(fs, path)
    THEN [ret |-> "nil", checksums |-> checksums, read |-> {}]
    ELSE LET g == generateSHA1Checksum(path) IN
         IF g.err
         THEN [ret |-> "err", checksums |-> checksums, read |-> {path}]
         ELSE [ret |-> "nil",
               checksums |-> append(checksums,
                                    FileChecksum(Rel(projectDir, path), g.checksum)),
               read |-> {path}]

\* The callback without the early return for directories (main.go:92-94):
\* a directory is handed to generateSHA1Checksum like a file.
fn_NoDirCheck(path) ==
    IF isIgnored(path, ignorePatterns, projectDir)
    THEN IF IsDir(fs, path)
         THEN [ret |-> "SkipDir", checksums |-> checksums, read |-> {}]
         ELSE [ret |-> "nil", checksums |-> checksums, read |-> {}]
    ELSE LET g == generateSHA1Checksum(path) IN
         IF g.err
         THEN [ret |-> "err", checksums |-> checksums, read |-> {path}]
         ELSE [ret |-> "nil",
               checksums |-> append(checksums,
                                    FileChecksum(Rel(projectDir, path), g.checksum)),
               read |-> {path}]

\* The callback handed to filepath.WalkDir, called without an error
\* (main.go:73-113): what it returns, the slice after it, the file it read.
fn(path) ==
    IF isIgnored(path, ignorePatterns, projectDir)
    THEN IF IsDir(fs, path)
         THEN [ret |-> "SkipDir", checksums |-> checksums, read |-> {}]
         ELSE [ret |-> "nil", checksums |-> checksums, read |-> {}]
    ELSE IF IsDir(fs, path)
    THEN [ret |-> "nil", checksums |-> checksums, read |-> {}]
    ELSE LET g == generateSHA1Checksum(path) IN
         IF g.err
         THEN [ret |-> "err", checksums |-> checksums, read |-> {path}]
         ELSE [ret |-> "nil",
               checksums |-> append(checksums,
                                    FileChecksum(Rel(projectDir, path), g.checksum)),
               read |-> {path}]

\* Frames without pending entries are finished directories.
RECURSIVE Normalize(_)
Normalize(st) ==
    IF st = <<>> THEN <<>>
    ELSE IF Head(st) = <<>> THEN Normalize(Tail(st))
    ELSE st

\* The entry WalkDir visits next, and the stack once it is dealt with.
Top == Head(Head(stack))
Popped == Normalize(<<Tail(Head(stack))>> \o Tail(stack))

Walking == pc = "walk" /\ walkErr = NoErr /\ stack # <<>>

History(r) ==
    /\ visited' = Append(visited, Top)
    /\ reads' = reads \cup r.read
    /\ UNCHANGED <<fs, ignorePaths, outputFile, pc, ignorePatterns, ret,
                   saves, fs0, run, last, prev>>

\* The callback returns filepath.SkipDir (main.go:84-87).  WalkDir then
\* skips the directory, or, had the entry been a file, the rest of the
\* directory that holds it.
walkDir_SkipDir ==
    /\ Walking
    /\ LET r == fn(Top) IN
       /\ r.ret = "SkipDir"
       /\ stack' = IF IsDir(fs, Top) THEN Popped ELSE Normalize(Tail(stack))
       /\ checksums' = r.checksums
       /\ History(r)
    /\ UNCHANGED <<walkErr, listed, failed>>

\* The walk that writes the artifact anew after every file it deals with.
walkDir_File_SaveEach ==
    /\ Walking
    /\ ~IsDir(fs, Top)
    /\ LET r == fn(Top)
           outputData == MarshalIndent(r.checksums)
           w == WriteFile(fs, Join(projectDir, outputFile), outputData)
       IN
       /\ r.ret = "nil"
       /\ stack' = Popped
       /\ checksums' = r.checksums
       /\ visited' = Append(visited, Top)
       /\ reads' = reads \cup r.read
       /\ fs' = w.fs
       /\ saves' = Append(saves, [path |-> Join(projectDir, outputFile),
                                  data |-> outputData, err |-> w.err])
    /\ UNCHANGED <<ignorePaths, outputFile, pc, ignorePatterns, ret, fs0, run,
                   last, prev, walkErr, listed, failed>>

\* The callback returns nil for a file: ignored (main.go:89) or hashed and
\* appended (main.go:96-112).
walkDir_File ==
    /\ Walking
    /\ ~IsDir(fs, Top)
    /\ LET r == fn(Top) IN
       /\ r.ret = "nil"
       /\ stack' = Popped
       /\ checksums' = r.checksums
       /\ History(r)
    /\ UNCHANGED <<walkErr, listed, failed>>

\* The callback that reports a file it cannot read and goes on.
walkDir_FileErr_Continue ==
    /\ Walking
    /\ LET r == fn(Top) IN
       /\ r.ret = "err"
       /\ stack' = Popped
       /\ checksums' = r.checksums
       /\ failed' = failed \cup {Top}
       /\ History(r)
    /\ UNCHANGED <<walkErr, listed>>

\* The callback returns the error of generateSHA1Checksum for a file it
\* cannot read (main.go:98-100) and WalkDir stops.
walkDir_FileErr ==
    /\ Walking
    /\ LET r == fn(Top) IN
       /\ r.ret = "err"
       /\ walkErr' = [kind |-> "checksum", path |-> Top]
       /\ checksums' = r.checksums
       /\ failed' = failed \cup {Top}
       /\ History(r)
    /\ UNCHANGED <<stack, listed>>

\* The callback returns nil for a directory (main.go:92-94) and WalkDir
\* lists it: its entries are visited next, in the order of their names.
walkDir_Dir ==
    /\ Walking
    /\ IsDir(fs, Top)
    /\ LET r == fn(Top)
           l == ReadDir(fs, Top) IN
       /\ r.ret = "nil"
       /\ ~l.err
       /\ stack' = Normalize(<<l.entries>> \o Popped)
       /\ checksums' = r.checksums
       /\ History(r)
    /\ listed' = listed \cup {Top}
    /\ UNCHANGED <<walkErr, failed>>

\* The directory cannot be listed: WalkDir calls the callback again with
\* the error, the callback returns it (main.go:74-76) and WalkDir stops.
walkDir_ReadDirErr ==
    /\ Walking
    /\ IsDir(fs, Top)
    /\ LET r == fn(Top)
           l == ReadDir(fs, Top) IN
       /\ r.ret = "nil"
       /\ l.err
       /\ walkErr' = [kind |-> "walk", path |-> Top]
       /\ checksums' = r.checksums
       /\ History(r)
    /\ listed' = listed \cup {Top}
    /\ failed' = failed \cup {Top}
    /\ UNCHANGED stack

\* calculateChecksums returns (main.go:115-119): nil and the error when
\* the walk failed, the slice otherwise.
calculateChecksums_Return ==
    /\ pc = "walk"
    /\ walkErr # NoErr \/ stack = <<>>
    /\ ret' = IF walkErr # NoErr
              THEN [checksums |-> NilSlice, err |-> walkErr]
              ELSE [checksums |-> checksums, err |-> NoErr]
    /\ pc' = "main"
    /\ UNCHANGED <<fs, ignorePaths, outputFile, ignorePatterns, checksums,
                   stack, walkErr, visited, listed, reads, failed, saves, fs0,
                   run, last, prev>>

-----------------------------------------------------------------------------
(* main *)

NoRun == [outcome |-> "none", manifest |-> NilSlice, artifact |-> <<>>]

\* The artifact written under the path of the entry appended last.
checksumsFilePath_LastEntry ==
    IF ret.checksums.elems = <<>> THEN Join(projectDir, outputFile)
    ELSE Join(projectDir, ret.checksums.elems[Len(ret.checksums.elems)].Path)

\* main.go:49
checksumsFilePath == Join(projectDir, outputFile)

\* saveToFile (main.go:138-150)
saveToFile(cs, file) ==
    LET outputData == MarshalIndent(cs) IN
    [data |-> outputData, w |-> WriteFile(fs, file, outputData)]

\* main.go:20-41: the flags are parsed, the ignore list is split, and
\* calculateChecksums starts the walk at the root.
main_Start ==
    /\ pc = "idle"
    /\ run < MaxRuns
    /\ ignorePatterns' = IF ignorePaths # <<>> THEN Split(ignorePaths, ",")
                         ELSE <<>>
    /\ checksums' = NilSlice
    /\ stack' = << <<projectDir>> >>
    /\ walkErr' = NoErr
    /\ ret' = [checksums |-> NilSlice, err |-> NoErr]
    /\ visited' = <<>>
    /\ listed' = {}
    /\ reads' = {}
    /\ failed' = {}
    /\ saves' = <<>>
    /\ fs0' = fs
    /\ pc' = "walk"
    /\ UNCHANGED <<fs, ignorePaths, outputFile, run, last, prev>>

Finish(outcome, artifact) ==
    /\ pc' = "idle"
    /\ run' = run + 1
    /\ prev' = last
    /\ last' = [outcome |-> outcome, manifest |-> ret.checksums,
                artifact |-> artifact]
    /\ UNCHANGED <<ignorePaths, outputFile, ignorePatterns, checksums, stack,
                   walkErr, ret, visited, listed, reads, failed, fs0>>

\* main.go:43-47: the walk failed, main reports it and returns.
main_Err ==
    /\ pc = "main"
    /\ ret.err # NoErr
    /\ Finish("walkError", <<>>)
    /\ UNCHANGED <<fs, saves>>

\* main without the check of calculateChecksums' error (main.go:43-47).
main_Save_NoCheck ==
    /\ pc = "main"
    /\ LET s == saveToFile(ret.checksums, checksumsFilePath) IN
       /\ ~s.w.err
       /\ fs' = s.w.fs
       /\ saves' = Append(saves, [path |-> checksumsFilePath, data |-> s.data,
                                  err |-> FALSE])
       /\ Finish("saved", s.data)

\* main.go:49-51: the manifest is written.
main_Save ==
    /\ pc = "main"
    /\ ret.err = NoErr
    /\ LET s == saveToFile(ret.checksums, checksumsFilePath) IN
       /\ ~s.w.err
       /\ fs' = s.w.fs
       /\ saves' = Append(saves, [path |-> checksumsFilePath, data |-> s.data,
                                  err |-> FALSE])
       /\ Finish("saved", s.data)

\* main.go:51-55: the write fails, main reports it.
main_SaveErr ==
    /\ pc = "main"
    /\ ret.err = NoErr
    /\ LET s == saveToFile(ret.checksums, checksumsFilePath) IN
       /\ s.w.err
       /\ fs' = s.w.fs
       /\ saves' = Append(saves, [path |-> checksumsFilePath, data |-> s.data,
                                  err |-> TRUE])
       /\ Finish("saveError", <<>>)

-----------------------------------------------------------------------------
(* The trees and arguments the runs start from *)

Hello == <<"h">>
World == <<"w">>

Allowed(p) ==
    IF p = projectDir THEN {DirNode(TRUE), DirNode(FALSE)}
    ELSE IF p = Join(projectDir, <<"a">>)
    THEN {Absent, FileNode(TRUE, Hello), FileNode(FALSE, Hello)}
    ELSE IF p = Join(projectDir, <<"b">>)
    THEN {Absent, DirNode(TRUE), DirNode(FALSE)}
    ELSE IF p = Join(projectDir, <<"b", "/", "a">>)
    THEN {Absent, FileNode(TRUE, World), FileNode(FALSE, World), DirNode(TRUE)}
    ELSE IF p = Join(projectDir, <<"b", "b">>)
    THEN {Absent, FileNode(TRUE, Hello)}
    ELSE IF p = Join(projectDir, <<"o">>)
    THEN {Absent, FileNode(TRUE, World)}
    ELSE {Absent}

Nodes == UNION { Allowed(p) : p \in AbsPaths }

\* Every entry but the root lies in a directory.
Trees ==
    { f \in [AbsPaths -> Nodes] :
        \A p \in AbsPaths :
            /\ f[p] \in Allowed(p)
            /\ (p # projectDir /\ f[p].kind # "none") => f[Parent(p)].kind = "dir" }

IgnoreFlags ==
    { <<>>, <<"b">>, <<"o">>, <<".">>, <<"b", ",">>, <<"a", ",", "o">> }

OutputFlags == { <<"o">>, <<"a">>, <<"b">>, <<"b", "/", "o">> }

Init ==
    /\ fs \in Trees
    /\ ignorePaths \in IgnoreFlags
    /\ outputFile \in OutputFlags
    /\ pc = "idle"
    /\ ignorePatterns = <<>>
    /\ checksums = NilSlice
    /\ stack = <<>>
    /\ walkErr = NoErr
    /\ ret = [checksums |-> NilSlice, err |-> NoErr]
    /\ visited = <<>>
    /\ listed = {}
    /\ reads = {}
    /\ failed = {}
    /\ saves = <<>>
    /\ fs0 = fs
    /\ run = 0
    /\ last = NoRun
    /\ prev = NoRun

Next ==
    \/ main_Start
    \/ walkDir_SkipDir
    \/ walkDir_File
    \/ walkDir_FileErr
    \/ walkDir_Dir
    \/ walkDir_ReadDirErr
    \/ calculateChecksums_Return
    \/ main_Err
    \/ main_Save
    \/ main_SaveErr

Spec == Init /\ [][Next]_vars

-----------------------------------------------------------------------------
(* Vocabulary of the properties *)

\* s begins with p, character by character.
StartsWith(s, p) ==
    /\ Len(p) <= Len(s)
    /\ \A i \in 1..Len(p) : s[i] = p[i]

\* The root-relative name of an entry of the tree; the root is ".".
RelOf(p) ==
    IF p = projectDir THEN <<".">>
    ELSE CHOOSE n \in RelNames : p = projectDir \o <<"/">> \o n

\* Some ignore pattern is a prefix of the relative name.
Matches(rel) ==
    \E i \in 1..Len(ignorePatterns) : StartsWith(rel, ignorePatterns[i])

RootMatches == Matches(<<".">>)

\* The path the artifact is written to.
OutPath == projectDir \o <<"/">> \o outputFile

\* calculateChecksums has returned without an error.
Returned == pc = "main" /\ ret.err = NoErr

\* A run has just ended.
RunEnded == pc = "idle" /\ run >= 1

EntriesFor(m, rel) == { i \in 1..Len(m.elems) : m.elems[i].Path = rel }

NoPathTwice(m) ==
    \A i, j \in 1..Len(m.elems) :
        m.elems[i].Path = m.elems[j].Path => i = j

\* The string literals of a JSON text, in the order they occur: the text
\* between the quotes 2k-1 and 2k.
QuoteAt(text, n) ==
    LET Q == { i \in 1..Len(text) : text[i] = "\"" } IN
    CHOOSE i \in Q : Cardinality({ j \in Q : j < i }) = n - 1

Literals(text) ==
    LET Q == { i \in 1..Len(text) : text[i] = "\"" } IN
    [k \in 1..(Cardinality(Q) \div 2) |->
        SubSeq(text, QuoteAt(text, 2 * k - 1) + 1, QuoteAt(text, 2 * k) - 1)]

\* Decoding a JSON text: null, or an array of objects, each object given by
\* its keys and values in the order they are written.
RECURSIVE Objects(_)
Objects(lits) ==
    IF Len(lits) < 4 THEN <<>>
    ELSE << [keys |-> <<lits[1], lits[3]>>, values |-> <<lits[2], lits[4]>>] >>
         \o Objects(SubSeq(lits, 5, Len(lits)))

Decode(text) ==
    IF text = <<"n", "u", "l", "l">> THEN [kind |-> "null", objects |-> <<>>]
    ELSE IF Len(text) >= 2 /\ text[1] = "[" /\ text[Len(text)] = "]"
    THEN [kind |-> "array", objects |-> Objects(Literals(text))]
    ELSE [kind |-> "invalid", objects |-> <<>>]

HexDigits == { hextable[i] : i \in 1..Len(hextable) }

\* A 40-character lowercase hexadecimal string.
IsChecksumString(s) ==
    /\ Len(s) = 2 * DigestSize
    /\ \A i \in 1..Len(s) : s[i] \in HexDigits

-----------------------------------------------------------------------------
(* C1 *)

\* C1 as stated: when calculateChecksums returns without an error, every
\* file of the tree whose relative path starts with no ignore pattern has
\* exactly one entry, every file whose relative path starts with one has
\* none, and no path occurs twice.
C1_AsStated ==
    Returned =>
        /\ \A p \in AbsPaths :
              fs[p].kind = "file" =>
                  Cardinality(EntriesFor(ret.checksums, RelOf(p)))
                      = IF Matches(RelOf(p)) THEN 0 ELSE 1
        /\ NoPathTwice(ret.checksums)

\* C1 amended: the same, except that when a pattern is a prefix of ".", the
\* root's own relative path, no file has an entry.
C1_ExactlyTheUnignoredFiles ==
    Returned =>
        /\ \A p \in AbsPaths :
              fs[p].kind = "file" =>
                  Cardinality(EntriesFor(ret.checksums, RelOf(p)))
                      = IF Matches(RelOf(p)) \/ RootMatches THEN 0 ELSE 1
        /\ NoPathTwice(ret.checksums)

\* Pattern "b" with files a, b/a and bb: only a is listed.
C1_Witness ==
    /\ Returned
    /\ ignorePatterns = << <<"b">> >>
    /\ fs[Join(projectDir, <<"a">>)].kind = "file"
    /\ fs[Join(projectDir, <<"b", "/", "a">>)].kind = "file"
    /\ fs[Join(projectDir, <<"b", "b">>)].kind = "file"
    /\ EntriesFor(ret.checksums, <<"a">>) # {}
    /\ EntriesFor(ret.checksums, <<"b", "b">>) = {}

-----------------------------------------------------------------------------
(* C5 *)

\* C5: after a run that wrote the artifact, decoding the file gives an
\* array with one object per manifest entry, in manifest order, each made
\* of exactly the path and a 40-character lowercase hexadecimal checksum.
C5_RoundTripShape ==
    (RunEnded /\ last.outcome = "saved") =>
        LET d == Decode(fs[OutPath].data)
            m == last.manifest.elems
        IN  /\ d.kind = "array"
            /\ Len(d.objects) = Len(m)
            /\ \A i \in 1..Len(d.objects) :
                  /\ d.objects[i].keys = << <<"p", "a", "t", "h">>,
                        <<"c", "h", "e", "c", "k", "s", "u", "m">> >>
                  /\ d.objects[i].values[1] = m[i].Path
                  /\ d.objects[i].values[2] = m[i].Checksum
                  /\ IsChecksumString(d.objects[i].values[2])

\* The same, for the runs that hashed at least one file.
C5_RoundTripShapeNonEmpty ==
    (RunEnded /\ last.outcome = "saved" /\ last.manifest.elems # <<>>) =>
        C5_RoundTripShape

-----------------------------------------------------------------------------
(* C10 *)

\* The artifact text holds no record.
NoRecords(text) == Decode(text).objects = <<>> /\ Decode(text).kind # "invalid"

\* What C10 says of the walk: only the root is visited, nothing is listed
\* or read, and calculateChecksums returns no error and no entry.
C10_Walk ==
    /\ visited = <<projectDir>>
    /\ listed = {}
    /\ reads = {}
    /\ failed = {}
    /\ ret.err = NoErr
    /\ ret.checksums.elems = <<>>

\* C10 as stated: when a pattern is a prefix of ".", the run skips the
\* root, reads nothing, reports no error and writes an artifact with zero
\* entries, whatever the tree contains.
C10_AsStated ==
    (RunEnded /\ RootMatches) =>
        /\ C10_Walk
        /\ last.outcome = "saved"
        /\ fs[OutPath].kind = "file"
        /\ NoRecords(fs[OutPath].data)

\* C10 amended: the walk is as stated and saveToFile is called once with
\* zero entries; the artifact is written unless that write itself fails.
C10_RootMatchingPattern ==
    /\ (Returned /\ RootMatches) => C10_Walk
    /\ (RunEnded /\ RootMatches) =>
          /\ C10_Walk
          /\ Len(saves) = 1
          /\ saves[1].path = OutPath
          /\ NoRecords(saves[1].data)
          /\ ~saves[1].err =>
                /\ last.outcome = "saved"
                /\ fs[OutPath] = FileNode(TRUE, saves[1].data)

\* A trailing comma in --ignore, a tree with an unreadable file: the run
\* ends with the artifact written.
C10_Witness ==
    /\ RunEnded
    /\ ignorePaths = <<"b", ",">>
    /\ RootMatches
    /\ fs0[Join(projectDir, <<"a">>)] = FileNode(FALSE, Hello)
    /\ last.outcome = "saved"

-----------------------------------------------------------------------------
(* C2 *)

\* The (path, checksum) pairs a manifest lists.
Pairs(m) == { <<m.elems[i].Path, m.elems[i].Checksum>> : i \in 1..Len(m.elems) }

\* The run's calculateChecksums returned a manifest.
Produced(r) == r.outcome \in {"saved", "saveError"}

\* C2 as stated: two runs in succession with the same arguments, nothing
\* else touching the tree, list the same paths with the same checksums.
C2_AsStated ==
    (RunEnded /\ run >= 2 /\ Produced(prev) /\ Produced(last)) =>
        Pairs(last.manifest) = Pairs(prev.manifest)

\* C2 amended: the second run yields a manifest whenever the first did, and
\* the two agree on every path other than the output file's own.
C2_DeterminismOffTheOutput ==
    (RunEnded /\ run >= 2 /\ Produced(prev)) =>
        /\ Produced(last)
        /\ { e \in Pairs(last.manifest) : e[1] # outputFile }
             = { e \in Pairs(prev.manifest) : e[1] # outputFile }

\* Two runs that both list a file other than the output, while the output
\* file written by the first is listed by the second only.
C2_Witness ==
    /\ RunEnded
    /\ run >= 2
    /\ prev.outcome = "saved"
    /\ Produced(last)
    /\ EntriesFor(prev.manifest, outputFile) = {}
    /\ EntriesFor(last.manifest, outputFile) # {}
    /\ \E e \in Pairs(last.manifest) : e[1] # outputFile

-----------------------------------------------------------------------------
(* C3 *)

InVisited(p) == \E i \in 1..Len(visited) : visited[i] = p

\* C3: a run in which a listing or a read failed never calls saveToFile
\* and leaves the file system, the output path included, as it was; a run
\* that calls saveToFile listed every visited directory it did not ignore
\* and hashed every visited file it did not ignore.
C3_AllOrNothing ==
    /\ failed # {} => (saves = <<>> /\ fs = fs0)
    /\ saves # <<>> =>
          /\ failed = {}
          /\ \A p \in AbsPaths :
                (InVisited(p) /\ ~Matches(RelOf(p))) =>
                    IF fs0[p].kind = "dir" THEN p \in listed
                    ELSE /\ p \in reads
                         /\ EntriesFor(ret.checksums, RelOf(p)) # {}

\* A run that had hashed a file when a later read failed.
C3_Witness ==
    /\ RunEnded
    /\ last.outcome = "walkError"
    /\ walkErr.kind = "checksum"
    /\ checksums.elems # <<>>
    /\ fs[OutPath] = fs0[OutPath]

-----------------------------------------------------------------------------
(* C4 *)

\* q lies below the directory p.
Below(q, p) == StartsWith(q, p \o <<"/">>)

\* C4: a visited directory whose relative path starts with a pattern is
\* never listed, nothing below it is visited, read or entered in the
\* manifest, nothing in it makes the run fail, and the walk goes on: when
\* it ends without an error, every entry that lies below no such directory
\* was visited.
C4_DirectoryPruning ==
    /\ \A p \in AbsPaths :
          (InVisited(p) /\ fs0[p].kind = "dir" /\ Matches(RelOf(p))) =>
              /\ p \notin listed
              /\ p \notin failed
              /\ \A q \in AbsPaths :
                    Below(q, p) =>
                        /\ ~InVisited(q)
                        /\ q \notin reads
                        /\ q \notin failed
                        /\ EntriesFor(checksums, RelOf(q)) = {}
    /\ Returned =>
          \A q \in AbsPaths :
              ( /\ fs0[q].kind # "none"
                /\ \A p \in AbsPaths :
                      Below(q, p) => ~Matches(RelOf(p)) ) => InVisited(q)

\* Pattern "b", a directory b that holds an unreadable file, and the walk
\* reaching o, which comes after b.
C4_Witness ==
    /\ Returned
    /\ ignorePatterns = << <<"b">> >>
    /\ fs0[Join(projectDir, <<"b">>)].kind = "dir"
    /\ fs0[Join(projectDir, <<"b", "/", "a">>)] = FileNode(FALSE, World)
    /\ InVisited(Join(projectDir, <<"b">>))
    /\ InVisited(Join(projectDir, <<"o">>))

-----------------------------------------------------------------------------
(* C6 *)

\* Every entry collected so far has the path of a visited file.
C6_EntriesAreFiles ==
    \A i \in 1..Len(checksums.elems) :
        \E p \in AbsPaths :
            /\ InVisited(p)
            /\ fs0[p].kind = "file"
            /\ RelOf(p) = checksums.elems[i].Path

\* The tree holds directories only.
OnlyDirs(f) == \A p \in AbsPaths : f[p].kind # "file"

-----------------------------------------------------------------------------
(* C7 *)

\* C7: once a listing or a read has failed, the only step of the walk is
\* the return of calculateChecksums, with the error and a nil manifest; no
\* entry is visited, read, listed or appended, and main then ends the run
\* without a manifest.
C7_NoContinuation ==
    [][ /\ (pc = "walk" /\ failed # {}) =>
              /\ pc' = "main"
              /\ ret'.err # NoErr
              /\ ret'.err.path = visited[Len(visited)]
              /\ ret'.checksums = NilSlice
              /\ visited' = visited
              /\ reads' = reads
              /\ listed' = listed
              /\ checksums' = checksums
        /\ (pc = "main" /\ ret.err # NoErr) =>
              /\ visited' = visited
              /\ reads' = reads
              /\ listed' = listed
              /\ checksums' = checksums
              /\ fs' = fs
              /\ last'.outcome = "walkError"
              /\ last'.manifest = NilSlice
      ]_vars

\* calculateChecksums has returned an error and nil although an entry had
\* been collected and an entry of the tree was still to be visited.
C7_Witness ==
    /\ pc = "main"
    /\ ret.err # NoErr
    /\ ret.checksums = NilSlice
    /\ checksums.elems # <<>>
    /\ \E q \in AbsPaths :
          /\ fs0[q].kind = "file"
          /\ ~Matches(RelOf(q))
          /\ fs0[Parent(q)].ok
          /\ ~InVisited(q)

-----------------------------------------------------------------------------
(* C8 *)

\* C8: a run reads only files of the tree and writes nothing during the
\* walk; it writes at most once, to the output path, and every other entry
\* of the tree is as it was when the run started.  An output path that
\* names a file of the tree is listed with the checksum of the content the
\* file had before the run.
C8_Frame ==
    /\ Len(saves) <= 1
    /\ \A i \in 1..Len(saves) : saves[i].path = OutPath
    /\ pc \in {"walk", "main"} => (saves = <<>> /\ fs = fs0)
    /\ \A p \in AbsPaths \ {OutPath} : fs[p] = fs0[p]
    /\ fs # fs0 =>
          /\ RunEnded
          /\ saves = << [path |-> OutPath, data |-> fs[OutPath].data,
                         err |-> FALSE] >>
    /\ reads \subseteq { p \in AbsPaths : fs0[p].kind = "file" }
    /\ (RunEnded /\ last.outcome = "saved" /\ fs0[OutPath].kind = "file"
          /\ ~Matches(outputFile) /\ ~RootMatches) =>
          /\ Cardinality(EntriesFor(last.manifest, outputFile)) = 1
          /\ \A i \in EntriesFor(last.manifest, outputFile) :
                last.manifest.elems[i].Checksum
                    = EncodeToString(Sum(fs0[OutPath].data))

\* The output names a file of the tree: the run lists it and replaces it.
C8_Witness ==
    /\ RunEnded
    /\ last.outcome = "saved"
    /\ outputFile = <<"a">>
    /\ fs0[OutPath] = FileNode(TRUE, Hello)
    /\ EntriesFor(last.manifest, outputFile) # {}
    /\ fs[OutPath].data = last.artifact
    /\ fs[OutPath] # fs0[OutPath]

-----------------------------------------------------------------------------
(* C9 *)

\* C9: when a pattern is a prefix of the output file's relative path, a
\* successful run that follows a successful run writes the same bytes and
\* leaves the tree as it found it.
C9_IdempotentWhenOutputIgnored ==
    (RunEnded /\ run >= 2 /\ prev.outcome = "saved" /\ last.outcome = "saved"
        /\ Matches(outputFile)) =>
        /\ last.artifact = prev.artifact
        /\ fs = fs0

\* Two successful runs with the output ignored and a file listed.
C9_Witness ==
    /\ RunEnded
    /\ run >= 2
    /\ prev.outcome = "saved"
    /\ last.outcome = "saved"
    /\ Matches(outputFile)
    /\ last.manifest.elems # <<>>
    /\ fs[OutPath].data = last.artifact

====
